---- MODULE Spec2Model ----
(***************************************************************************)
(* Staggered race with fallback over the Langflow flows of FLOW_IDS:       *)
(* call_single_flow_with_delay (the worker), call_langflow_staggered_race  *)
(* (one attempt per iteration of its for loop, retried up to max_retries   *)
(* times) and the part of main that configures and calls it.               *)
(*                                                                         *)
(* Time is counted in ticks of half a second, the granularity of the       *)
(* worker's polling loop.  A sleeping thread holds the ticks it still has  *)
(* to sleep; Tick lets half a second pass for every sleeper.  A thread     *)
(* whose sleep is over resumes at some later step, never earlier.          *)
(***************************************************************************)
EXTENDS Integers, Sequences, FiniteSets, TLC

\* ---------------------------------------------------------------- bounds
\* largest stagger delay (seconds) typed at the config prompt
MaxStagger == 1
\* smallest one: int(new_delay) accepts zero and negative numbers
StaggerChoices == (0 - 1) .. MaxStagger

\* ------------------------------------------------------ program constants
FLOW_IDS == << "d29ded11", "ef7a48a6", "ad4f9e7b" >>
N == Len(FLOW_IDS)
\* enumerate(FLOW_IDS): the positions 0 .. N-1
Idx == 0 .. (N - 1)
Flow(i) == FLOW_IDS[i + 1]
\* max_retries=3 and retry_delay=2, as main passes them
max_retries == 3
retry_delay == 2
\* ticks per second, and the 0.5 s of one poll or of the grace sleep
Sec == 2
Poll == 1

Min(a, b) == IF a < b THEN a ELSE b

\* the clock of an attempt is followed up to the largest start delay of the
\* race, (N - 1) * d seconds; with d <= 0 every delay is over at its start
Horizon(d) == IF d > 0 THEN (N - 1) * d * Sec ELSE 0

\* ------------------------------------------------------------ the Invoker
\* message texts as sequences of characters; "" is << >>
Texts == { << >>, << " ", "\n" >>, << "a" >>, << " ", "b", " " >> }
\* what requests.post / raise_for_status / response.json can do:
\*   timeout   requests.exceptions.Timeout
\*   error     any other exception (connection, HTTP status, invalid JSON)
\*   malformed a JSON body without outputs[0].outputs[0].results.message.text
\*   json      a JSON body that has the text
Responses ==
    { [kind |-> "timeout", text |-> << >>],
      [kind |-> "error", text |-> << >>],
      [kind |-> "malformed", text |-> << >>] }
    \cup { [kind |-> "json", text |-> t] : t \in Texts }

IsSpace(c) == c \in {" ", "\t", "\n"}

RECURSIVE LStrip(_)
LStrip(s) ==
    IF s = << >> THEN << >>
    ELSE IF IsSpace(Head(s)) THEN LStrip(Tail(s)) ELSE s

RECURSIVE RStrip(_)
RStrip(s) ==
    IF s = << >> THEN << >>
    ELSE IF IsSpace(s[Len(s)]) THEN RStrip(SubSeq(s, 1, Len(s) - 1)) ELSE s

\* str.strip()
Strip(s) == RStrip(LStrip(s))

\* truthiness of a Python str
Truthy(s) == Len(s) > 0

extract_message_from_response(r) ==
    IF r.kind = "json" THEN r.text ELSE << >>

\* the tuple (success, flow_id, message, elapsed, cancelled); elapsed, a
\* wall-clock measurement that no decision reads, is left out
Outcome(s, f, m, c) ==
    [success |-> s, flow_id |-> f, message |-> m, cancelled |-> c]

NoOutcome == Outcome(FALSE, "", << >>, FALSE)

\* a classification that tests message_text alone, without .strip()
Classify_NoStrip(flow_id, r) ==
    IF r.kind \in {"timeout", "error"}
    THEN Outcome(FALSE, flow_id, << >>, FALSE)
    ELSE LET message_text == extract_message_from_response(r)
         IN  IF Truthy(message_text)
             THEN Outcome(TRUE, flow_id, message_text, FALSE)
             ELSE Outcome(FALSE, flow_id, << >>, FALSE)

\* lines 72-97: the outcome of the try block for the response r
Classify(flow_id, r) ==
    IF r.kind \in {"timeout", "error"}
    THEN Outcome(FALSE, flow_id, << >>, FALSE)
    ELSE LET message_text == extract_message_from_response(r)
         IN  IF Truthy(message_text) /\ Truthy(Strip(message_text))
             THEN Outcome(TRUE, flow_id, message_text, FALSE)
             ELSE Outcome(FALSE, flow_id, << >>, FALSE)

\* a cancelled return whose last field is False
CancelledOutcome_NotFlagged(flow_id) == Outcome(FALSE, flow_id, << >>, FALSE)

\* line 50
CancelledOutcome(flow_id) == Outcome(FALSE, flow_id, << >>, TRUE)

\* a schedule without stagger
Delay_NoStagger(idx, d) == 0

\* line 131
Delay(idx, d) == idx * d

\* a test of the Event object instead of its flag: always true
SeesWinner_Always(ev) == TRUE

\* a delay loop that never looks at the event
SeesWinner_Never(ev) == FALSE

\* line 47: winner_event and winner_event.is_set()
SeesWinner(ev) == ev

\* a loop that forgets to count its polls
NextWaited_Stuck(w) == w

\* line 53: waited += 0.5
NextWaited(w) == w + Poll

\* an executor left without joining its threads
Joined_NoWait(pcs) == TRUE

\* line 127: the exit of the with block, shutdown(wait=True), goes on once
\* every submitted worker thread has returned
Joined(pcs) == \A i \in DOMAIN pcs : pcs[i] \in {"none", "done"}

\* range(1, max_retries)
InRange_OffByOne(a) == a < max_retries

\* line 118: range(1, max_retries + 1)
InRange(a) == a <= max_retries

\* a retry branch that is never taken
HasRetryLeft_Never(a) == FALSE

\* a retry test that also holds at the last attempt
HasRetryLeft_Inclusive(a) == a <= max_retries

\* line 197
HasRetryLeft(a) == a < max_retries

\* a session id drawn once and kept for every attempt
NextSessionId_Reuse(sid, n) == IF n = 0 THEN 1 ELSE sid

\* lines 116 and 200: str(uuid.uuid4()) when the race has drawn n values and
\* holds the session id sid; the n+1st value differs from all before it
NextSessionId(sid, n) == n + 1

\* a return of the first recorded result instead of the current one
ReturnValue_FirstRecorded(c, results) ==
    [message |-> results[1].message, flow_id |-> results[1].flow_id]

\* line 177: the returned message and flow_id are those of the outcome c the
\* loop is handling; results is all_results
ReturnValue(c, results) == [message |-> c.message, flow_id |-> c.flow_id]

\* ------------------------------------------------------------------ state
VARIABLES
    stagger_delay,  \* main's stagger_delay, passed to the race
    spc,            \* where main / call_langflow_staggered_race stands
    attempt,        \* the for loop's attempt
    session_id,     \* the race's session_id
    uuids,          \* how many uuid4 values the race has drawn
    winner_event,   \* the attempt's threading.Event
    winner_found,
    all_results,
    sub,            \* next position the submit loop handles
    finished,       \* as_completed: futures already done when it was called
    doneQ,          \* futures in the order they completed
    observed,       \* futures as_completed has yielded, in order
    srem,           \* ticks the scheduler's current sleep still lasts
    result,         \* << >> or << the returned (message, flow_id) >>
    raised,         \* << >> or << the raised exception >>
    wpc,            \* per worker: where its thread stands
    wdelay,         \* per worker: its delay_seconds argument
    wsid,           \* per worker: its session_id argument
    waited,         \* per worker: waited, in ticks
    wrem,           \* per worker: ticks its current sleep still lasts
    outcome,        \* per worker: the tuple it returned
    calls,          \* per attempt and position: session ids of the posts made
    attempts,       \* session id each attempt was started with
    winners,        \* << attempt, position >> of every winner declared
    cur,            \* the outcome the as_completed loop is handling
    last,           \* << >> or << position, response >> of the newest answer
    pending,        \* positions still in their start delay when winner_event was set
    clock,          \* ticks since overall_start, the start of the attempt
    early           \* positions that succeeded before any other start delay was over

vars == << stagger_delay, spc, attempt, session_id, uuids, winner_event,
           winner_found, all_results, sub, finished, doneQ, observed, srem,
           result, raised, wpc, wdelay, wsid, waited, wrem, outcome, calls,
           attempts, winners, cur, last, pending, clock, early >>

\* what only the scheduler thread writes, and what only the workers write
svars == << stagger_delay, spc, attempt, session_id, uuids, winner_event,
            winner_found, all_results, sub, finished, observed, srem, result,
            raised, attempts, winners, cur, pending >>
wvars == << wpc, wdelay, wsid, waited, wrem, outcome, doneQ, calls, last,
           early >>

NoCalls == [a \in 1 .. max_retries |-> [i \in Idx |-> << >>]]

\* the worker threads of a fresh ThreadPoolExecutor: none submitted yet
FreshPool ==
    /\ wpc' = [i \in Idx |-> "none"]
    /\ wdelay' = [i \in Idx |-> 0]
    /\ wsid' = [i \in Idx |-> 0]
    /\ waited' = [i \in Idx |-> 0]
    /\ wrem' = [i \in Idx |-> 0]
    /\ last' = << >>
    /\ early' = {}
    /\ outcome' = [i \in Idx |-> NoOutcome]
    /\ doneQ' = << >>

\* main at its prompt, no race under way.  stagger_delay starts at 7 (line 224)
\* and takes any integer at the config prompt; the runs start from the small
\* values of StaggerChoices, which keep the delay loops short
InitWith(d) ==
    /\ stagger_delay = d
    /\ spc = "input"
    /\ attempt = 0
    /\ session_id = 0
    /\ uuids = 0
    /\ winner_event = FALSE
    /\ winner_found = FALSE
    /\ all_results = << >>
    /\ sub = 0
    /\ finished = {}
    /\ doneQ = << >>
    /\ observed = << >>
    /\ srem = 0
    /\ result = << >>
    /\ raised = << >>
    /\ wpc = [i \in Idx |-> "none"]
    /\ wdelay = [i \in Idx |-> 0]
    /\ wsid = [i \in Idx |-> 0]
    /\ waited = [i \in Idx |-> 0]
    /\ wrem = [i \in Idx |-> 0]
    /\ outcome = [i \in Idx |-> NoOutcome]
    /\ calls = NoCalls
    /\ attempts = << >>
    /\ winners = << >>
    /\ cur = NoOutcome
    /\ last = << >>
    /\ pending = {}
    /\ clock = 0
    /\ early = {}

Init == \E d \in StaggerChoices : InitWith(d)

Range(q) == { q[k] : k \in 1 .. Len(q) }

AllDone == Joined(wpc)

\* ------------------------------------------------------------------- main
\* lines 254-265: the config command, stagger_delay = int(new_delay)
main_config(d) ==
    /\ spc = "input"
    /\ stagger_delay' = d
    /\ UNCHANGED << spc, attempt, session_id, uuids, winner_event, winner_found,
                    all_results, sub, finished, observed, srem, result, raised,
                    attempts, winners, cur, pending >>
    /\ UNCHANGED wvars
    /\ UNCHANGED clock

\* lines 272-281 and 116: a query enters call_langflow_staggered_race, which
\* draws the first session_id; the for loop starts at attempt 1
main_query ==
    /\ spc = "input"
    /\ spc' = "for"
    /\ attempt' = 1
    /\ uuids' = uuids + 1
    /\ session_id' = NextSessionId(session_id, uuids)
    /\ UNCHANGED << stagger_delay, winner_event, winner_found, all_results,
                    sub, finished, observed, srem, result, raised, attempts,
                    winners, cur, pending >>
    /\ UNCHANGED wvars
    /\ UNCHANGED clock

\* lines 283-295 and 238: main reports the result or the error and goes back
\* to its prompt; the finished call and everything it held are gone
main_done ==
    /\ spc \in {"returned", "raised"}
    /\ spc' = "input"
    /\ attempt' = 0
    /\ session_id' = 0
    /\ uuids' = 0
    /\ result' = << >>
    /\ raised' = << >>
    /\ attempts' = << >>
    /\ winners' = << >>
    /\ calls' = NoCalls
    /\ winner_event' = FALSE
    /\ winner_found' = FALSE
    /\ all_results' = << >>
    /\ sub' = 0
    /\ finished' = {}
    /\ observed' = << >>
    /\ srem' = 0
    /\ cur' = NoOutcome
    /\ pending' = {}
    /\ clock' = 0
    /\ FreshPool
    /\ UNCHANGED stagger_delay

\* -------------------------------------------- call_langflow_staggered_race
\* lines 118-127: one more iteration of the for loop
StartAttempt ==
    /\ spc = "for"
    /\ InRange(attempt)
    /\ spc' = "submit"
    /\ winner_event' = FALSE
    /\ all_results' = << >>
    /\ winner_found' = FALSE
    /\ sub' = 0
    /\ finished' = {}
    /\ observed' = << >>
    /\ cur' = NoOutcome
    /\ pending' = {}
    /\ clock' = 0
    /\ attempts' = Append(attempts, session_id)
    /\ FreshPool
    /\ UNCHANGED << stagger_delay, attempt, session_id, uuids, srem, result,
                    raised, winners, calls >>

\* lines 130-141: executor.submit for the flow at position sub
Submit ==
    /\ spc = "submit"
    /\ sub < N
    /\ wpc' = [wpc EXCEPT ![sub] = "start"]
    /\ wdelay' = [wdelay EXCEPT ![sub] = Delay(sub, stagger_delay)]
    /\ wsid' = [wsid EXCEPT ![sub] = session_id]
    /\ sub' = sub + 1
    /\ UNCHANGED << stagger_delay, spc, attempt, session_id, uuids,
                    winner_event, winner_found, all_results, finished,
                    observed, srem, result, raised, attempts, winners, cur,
                    pending >>
    /\ UNCHANGED << waited, wrem, outcome, doneQ, calls, last, clock, early >>

\* line 144: as_completed(futures) is called; it notes the futures that are
\* done already and yields those first
AsCompleted ==
    /\ spc = "submit"
    /\ sub = N
    /\ spc' = "iter"
    /\ finished' = { i \in Idx : wpc[i] = "done" }
    /\ UNCHANGED << stagger_delay, attempt, session_id, uuids, winner_event,
                    winner_found, all_results, sub, observed, srem, result,
                    raised, attempts, winners, cur, pending >>
    /\ UNCHANGED wvars
    /\ UNCHANGED clock

\* the futures as_completed may yield next: any of those done at the call,
\* then the others in the order they complete
RECURSIVE FirstNotIn(_, _)
FirstNotIn(q, S) ==
    IF q = << >> THEN {}
    ELSE IF Head(q) \in S THEN FirstNotIn(Tail(q), S) ELSE {Head(q)}

Yieldable ==
    IF finished \ Range(observed) # {}
    THEN finished \ Range(observed)
    ELSE FirstNotIn(doneQ, Range(observed))

\* lines 41-53: the worker at position j has been running for less than its
\* delay_seconds: it has not looked at winner_event yet, or the sleeps it
\* has finished and the part of the current one that has passed are shorter
InStartDelay(j) ==
    /\ wdelay[j] > 0
    /\ \/ wpc[j] = "start"
       \/ /\ wpc[j] = "sleep"
          /\ waited[j] + (Min(Poll, wdelay[j] * Sec - waited[j]) - wrem[j])
                < wdelay[j] * Sec

\* lines 152-159
ResultEntry(o, delay) ==
    [flow_id |-> o.flow_id, success |-> o.success, message |-> o.message,
     delay |-> delay]

\* a winner test that forgets success
IsWinner_AnyOutcome(o, found) == ~found

\* line 161
IsWinner(o, found) == o.success /\ ~found

\* lines 144-175: one iteration of the as_completed loop, up to the grace
\* sleep when the outcome is the winner
NextFuture(i) ==
    /\ spc = "iter"
    /\ i \in Yieldable
    /\ observed' = Append(observed, i)
    /\ cur' = outcome[i]
    /\ IF outcome[i].cancelled
       THEN /\ UNCHANGED << all_results, winner_found, winner_event, winners,
                            spc, srem, pending >>
       ELSE /\ all_results' =
                   Append(all_results, ResultEntry(outcome[i], wdelay[i]))
            /\ IF IsWinner(outcome[i], winner_found)
               THEN /\ winner_found' = TRUE
                    /\ winner_event' = TRUE
                    /\ winners' = Append(winners, << attempt, i >>)
                    /\ pending' = { j \in Idx : InStartDelay(j) }
                    /\ spc' = "grace"
                    /\ srem' = Poll
               ELSE UNCHANGED << winner_found, winner_event, winners, spc,
                                 srem, pending >>
    /\ UNCHANGED << stagger_delay, attempt, session_id, uuids, sub, finished,
                    result, raised, attempts >>
    /\ UNCHANGED wvars
    /\ UNCHANGED clock

\* lines 175-177: the grace sleep is over and the return leaves the with
\* block, whose exit joins every worker thread (shutdown(wait=True))
Return ==
    /\ spc = "grace"
    /\ srem = 0
    /\ AllDone
    /\ spc' = "returned"
    /\ result' = << ReturnValue(cur, all_results) >>
    /\ UNCHANGED << stagger_delay, attempt, session_id, uuids, winner_event,
                    winner_found, all_results, sub, finished, observed, srem,
                    raised, attempts, winners, cur, pending >>
    /\ UNCHANGED wvars
    /\ UNCHANGED clock

\* lines 179-202: every future was yielded and none won
AttemptFailed ==
    /\ spc = "iter"
    /\ Range(observed) = Idx
    /\ IF HasRetryLeft(attempt)
       THEN /\ spc' = "cooldown"
            /\ srem' = retry_delay * Sec
            /\ UNCHANGED attempt
       ELSE /\ spc' = "for"
            /\ attempt' = attempt + 1
            /\ UNCHANGED srem
    /\ UNCHANGED << stagger_delay, session_id, uuids, winner_event,
                    winner_found, all_results, sub, finished, observed, result,
                    raised, attempts, winners, cur, pending >>
    /\ UNCHANGED wvars
    /\ UNCHANGED clock

\* lines 199-200: the cooldown is over; a new session_id for the next attempt
Cooldown ==
    /\ spc = "cooldown"
    /\ srem = 0
    /\ uuids' = uuids + 1
    /\ session_id' = NextSessionId(session_id, uuids)
    /\ attempt' = attempt + 1
    /\ spc' = "for"
    /\ UNCHANGED << stagger_delay, winner_event, winner_found, all_results,
                    sub, finished, observed, srem, result, raised, attempts,
                    winners, cur, pending >>
    /\ UNCHANGED wvars
    /\ UNCHANGED clock

\* lines 204-207
Raise ==
    /\ spc = "for"
    /\ ~InRange(attempt)
    /\ spc' = "raised"
    /\ raised' = << [attempts |-> max_retries, total |-> N * max_retries] >>
    /\ UNCHANGED << stagger_delay, attempt, session_id, uuids, winner_event,
                    winner_found, all_results, sub, finished, observed, srem,
                    result, attempts, winners, cur, pending >>
    /\ UNCHANGED wvars
    /\ UNCHANGED clock

\* ---------------------------------------------- call_single_flow_with_delay
\* lines 46-75 with waited = w: the loop test, the look at winner_event and
\* either the cancelled return, the next sleep, or, once the loop is left
\* (or was never entered), the post with the worker's session_id
Proceed(i, w) ==
    /\ waited' = [waited EXCEPT ![i] = w]
    /\ IF wdelay[i] > 0 /\ w < wdelay[i] * Sec
       THEN IF SeesWinner(winner_event)
            THEN /\ wpc' = [wpc EXCEPT ![i] = "done"]
                 /\ outcome' = [outcome EXCEPT ![i] = CancelledOutcome(Flow(i))]
                 /\ doneQ' = Append(doneQ, i)
                 /\ UNCHANGED << wrem, calls >>
            ELSE /\ wpc' = [wpc EXCEPT ![i] = "sleep"]
                 /\ wrem' = [wrem EXCEPT ![i] = Min(Poll, wdelay[i] * Sec - w)]
                 /\ UNCHANGED << outcome, doneQ, calls >>
       ELSE /\ wpc' = [wpc EXCEPT ![i] = "inflight"]
            /\ calls' = [calls EXCEPT ![Len(attempts)][i] = Append(@, wsid[i])]
            /\ UNCHANGED << wrem, outcome, doneQ >>
    /\ UNCHANGED << wdelay, wsid, last, early >>
    /\ UNCHANGED svars
    /\ UNCHANGED clock

\* lines 41-45: the worker thread starts running, waited = 0
WorkerStart(i) ==
    /\ wpc[i] = "start"
    /\ Proceed(i, 0)

\* lines 52-53: time.sleep returns, waited += 0.5, and the loop goes on
DelayWake(i) ==
    /\ wpc[i] = "sleep"
    /\ wrem[i] = 0
    /\ Proceed(i, NextWaited(waited[i]))

\* lines 122 and 131: the attempt is younger than the start delay of every
\* position but i
AheadOfOthers(i) ==
    \A j \in Idx \ {i} : clock < j * stagger_delay * Sec

\* lines 75-97: the Invoker answers r and the worker returns its tuple
ReceiveResponse(i, r) ==
    /\ wpc[i] = "inflight"
    /\ last' = << i, r >>
    /\ outcome' = [outcome EXCEPT ![i] = Classify(Flow(i), r)]
    /\ wpc' = [wpc EXCEPT ![i] = "done"]
    /\ doneQ' = Append(doneQ, i)
    /\ early' = IF Classify(Flow(i), r).success /\ AheadOfOthers(i)
                THEN early \cup {i}
                ELSE early
    /\ UNCHANGED << wdelay, wsid, waited, wrem, calls >>
    /\ UNCHANGED svars
    /\ UNCHANGED clock

\* ------------------------------------------------------------------- time
Dec(n) == IF n > 0 THEN n - 1 ELSE 0

\* an attempt is under way: overall_start is taken and the with block not left
Racing == spc \in {"submit", "iter", "grace"}

\* what half a second does: every sleep has that much less to go and the
\* attempt is that much older
Pass(cap) ==
    /\ srem' = Dec(srem)
    /\ wrem' = [i \in Idx |-> Dec(wrem[i])]
    /\ clock' = IF Racing /\ clock < cap THEN clock + 1 ELSE clock

\* half a second passes; a thread may be late, so it can pass at any moment
Tick ==
    /\ \/ srem > 0
       \/ \E i \in Idx : wrem[i] > 0
       \/ Racing /\ clock < Horizon(stagger_delay)
    /\ Pass(Horizon(stagger_delay))
    /\ UNCHANGED << stagger_delay, spc, attempt, session_id, uuids,
                    winner_event, winner_found, all_results, sub, finished,
                    observed, result, raised, attempts, winners, cur, pending >>
    /\ UNCHANGED << wpc, wdelay, wsid, waited, outcome, doneQ, calls, last,
                    early >>

Next ==
    \/ \E d \in StaggerChoices : main_config(d)
    \/ main_query
    \/ main_done
    \/ StartAttempt
    \/ Submit
    \/ AsCompleted
    \/ \E i \in Idx : NextFuture(i)
    \/ Return
    \/ AttemptFailed
    \/ Cooldown
    \/ Raise
    \/ \E i \in Idx : WorkerStart(i)
    \/ \E i \in Idx : DelayWake(i)
    \/ \E i \in Idx : \E r \in Responses : ReceiveResponse(i, r)
    \/ Tick

Spec == Init /\ [][Next]_vars

\* ------------------------------------------------------------- fairness
\* the steps of the main thread inside call_langflow_staggered_race
SchedulerStep ==
    \/ StartAttempt
    \/ Submit
    \/ AsCompleted
    \/ \E i \in Idx : NextFuture(i)
    \/ Return
    \/ AttemptFailed
    \/ Cooldown
    \/ Raise

\* an Invoker with one answer of each outcome: a text and an error
Answers ==
    { [kind |-> "json", text |-> << "a" >>],
      [kind |-> "error", text |-> << >>] }

NextFair ==
    \/ \E d \in StaggerChoices : main_config(d)
    \/ main_query
    \/ main_done
    \/ SchedulerStep
    \/ \E i \in Idx : WorkerStart(i)
    \/ \E i \in Idx : DelayWake(i)
    \/ \E i \in Idx : \E r \in Answers : ReceiveResponse(i, r)
    \/ Tick

\* every thread that can run does run, every post comes back and time
\* passes; the user at the prompt is under no obligation
Fairness ==
    /\ WF_vars(SchedulerStep)
    /\ \A i \in Idx : WF_vars(WorkerStart(i) \/ DelayWake(i))
    /\ \A i \in Idx : WF_vars(\E r \in Answers : ReceiveResponse(i, r))
    /\ WF_vars(Tick)

SpecFair == Init /\ [][NextFair]_vars /\ Fairness

\* -------------------------------------------------------- timely threads
\* a thread of the program has a step to take: the scheduler is not blocked
\* in as_completed, in a sleep or in the join, or a worker is not blocked in
\* its sleep or in its post
Runnable ==
    \/ spc \in {"for", "submit"}
    \/ spc = "iter" /\ (Yieldable # {} \/ Range(observed) = Idx)
    \/ spc = "grace" /\ srem = 0 /\ AllDone
    \/ spc = "cooldown" /\ srem = 0
    \/ \E i \in Idx : wpc[i] = "start" \/ (wpc[i] = "sleep" /\ wrem[i] = 0)

\* half a second passes once every runnable thread has run: no thread is
\* late by a poll interval; the Invoker still answers whenever it likes
TimelyTick ==
    /\ ~Runnable
    /\ \/ srem > 0
       \/ \E i \in Idx : wrem[i] > 0
       \/ Racing /\ clock < Horizon(stagger_delay)
    /\ Pass(Horizon(stagger_delay))
    /\ UNCHANGED << stagger_delay, spc, attempt, session_id, uuids,
                    winner_event, winner_found, all_results, sub, finished,
                    observed, result, raised, attempts, winners, cur, pending >>
    /\ UNCHANGED << wpc, wdelay, wsid, waited, outcome, doneQ, calls, last,
                    early >>

NextTimely ==
    \/ \E d \in StaggerChoices : main_config(d)
    \/ main_query
    \/ main_done
    \/ StartAttempt
    \/ Submit
    \/ AsCompleted
    \/ \E i \in Idx : NextFuture(i)
    \/ Return
    \/ AttemptFailed
    \/ Cooldown
    \/ Raise
    \/ \E i \in Idx : WorkerStart(i)
    \/ \E i \in Idx : DelayWake(i)
    \/ \E i \in Idx : \E r \in Responses : ReceiveResponse(i, r)
    \/ TimelyTick

SpecTimely == Init /\ [][NextTimely]_vars

\* ------------------------------------------------- one race, as scripted
\* line 224: the interval main starts with
stagger_default == 7

\* the flow at position 0 fails 2 s after the attempt started, the flow at
\* position 1 answers "hello" 9 s after it started
AFailsAt == 2 * Sec
BSucceedsAt == 9 * Sec
Hello == << "h", "e", "l", "l", "o" >>

ScenarioInit == InitWith(stagger_default)

\* the answer of a flow that has been posted to is due now
Due ==
    \/ wpc[0] = "inflight" /\ clock = AFailsAt
    \/ wpc[1] = "inflight" /\ clock = BSucceedsAt

\* lines 75-97 with the Invoker of the scenario: position 0 gets a failure,
\* position 1 the text, each at its time; position 2 anything at any time
ScenarioReceive(i, r) ==
    /\ i = 0 => clock = AFailsAt /\ ~Classify(Flow(i), r).success
    /\ i = 1 => clock = BSucceedsAt /\ r = [kind |-> "json", text |-> Hello]
    /\ ReceiveResponse(i, r)

\* half a second passes once every runnable thread has run and no answer
\* is due
ScenarioTick ==
    /\ ~Runnable
    /\ ~Due
    /\ \/ srem > 0
       \/ \E i \in Idx : wrem[i] > 0
       \/ Racing /\ clock < Horizon(stagger_delay)
    /\ Pass(Horizon(stagger_delay))
    /\ UNCHANGED << stagger_delay, spc, attempt, session_id, uuids,
                    winner_event, winner_found, all_results, sub, finished,
                    observed, result, raised, attempts, winners, cur, pending >>
    /\ UNCHANGED << wpc, wdelay, wsid, waited, outcome, doneQ, calls, last,
                    early >>

NextScenario ==
    \/ main_query
    \/ StartAttempt
    \/ Submit
    \/ AsCompleted
    \/ \E i \in Idx : NextFuture(i)
    \/ Return
    \/ \E i \in Idx : WorkerStart(i)
    \/ \E i \in Idx : DelayWake(i)
    \/ \E i \in Idx :
          \E r \in Responses \cup {[kind |-> "json", text |-> Hello]} :
              ScenarioReceive(i, r)
    \/ ScenarioTick

SpecScenario == ScenarioInit /\ [][NextScenario]_vars

\* ----------------------------------------------------------------- claims
\* the attempt whose workers exist: the newest one started
Running == Len(attempts)

Attempts == 1 .. max_retries

Succeeded(i) == wpc[i] = "done" /\ outcome[i].success /\ ~outcome[i].cancelled

\* the first position of q whose outcome is a non-cancelled success
RECURSIVE FirstOk(_)
FirstOk(q) ==
    IF q = << >> THEN {}
    ELSE IF outcome[Head(q)].success /\ ~outcome[Head(q)].cancelled
         THEN {Head(q)}
         ELSE FirstOk(Tail(q))

AllFailed == \A i \in Idx : wpc[i] = "done" /\ ~outcome[i].success

DistinctSessions ==
    \A j, k \in 1 .. Len(attempts) : j # k => attempts[j] # attempts[k]

NonBlank(t) == \E k \in 1 .. Len(t) : t[k] \notin {" ", "\t", "\n"}

Count(q, x) == Cardinality({ k \in 1 .. Len(q) : q[k] = x })

Recorded(i) == \E k \in 1 .. Len(all_results) : all_results[k].flow_id = Flow(i)

\* C1: the race returns the backend and payload of the first non-cancelled
\* ok outcome that as_completed yields, whatever its stagger rank, and at most
\* one winner is declared per attempt and per race.
FirstObservedSuccessWins ==
    /\ Len(winners) <= 1
    /\ (FirstOk(observed) # {}) <=> (winners # << >>)
    /\ winners # << >> =>
          /\ winners[1][1] = Running
          /\ winners[1][2] \in FirstOk(observed)
    /\ (result # << >>) <=> (spc = "returned")
    /\ spc = "returned" =>
          \E w \in FirstOk(observed) :
              result = << [message |-> outcome[w].message, flow_id |-> Flow(w)] >>

\* the last flow wins although the first one succeeds too
LastRankWins ==
    /\ spc = "returned"
    /\ result[1].flow_id = Flow(N - 1)
    /\ Succeeded(0)

\* C2: a worker still in its start delay when winner_event is set never posts
\* to its flow in that attempt.
CancellationPreventsInvocation ==
    \A i \in pending : calls[Running][i] = << >>

\* C3: an attempt in which every call failed is reported failed; while fewer
\* than max_retries attempts have run the cooldown follows and then a new
\* attempt over all N flows with a session id no earlier attempt had; never
\* more than max_retries attempts.
AllFailTriggersRetry ==
    /\ [](/\ Len(attempts) <= max_retries
          /\ DistinctSessions
          /\ spc = "iter" => \A i \in Idx : wpc[i] # "none"
          /\ spc = "cooldown" =>
                AllFailed /\ attempt = Running /\ attempt < max_retries)
    /\ [][(spc = "iter" /\ AllFailed /\ spc' # "iter") =>
             /\ Range(observed) = Idx
             /\ result' = << >>
             /\ IF attempt < max_retries
                THEN spc' = "cooldown"
                ELSE spc' = "for" /\ attempt' > max_retries]_vars
    /\ [][(spc = "cooldown" /\ spc' # "cooldown") =>
             /\ spc' = "for"
             /\ attempt' = attempt + 1
             /\ session_id' \notin Range(attempts)]_vars
    /\ [][(spc = "for" /\ attempt <= max_retries /\ spc' # "for") =>
             /\ spc' = "submit"
             /\ attempts' = Append(attempts, session_id)
             /\ Len(attempts') = attempt
             /\ \A i \in Idx : wpc'[i] = "none"]_vars

\* the second attempt is under way after a failed first one
SecondAttemptStarted ==
    /\ spc = "iter"
    /\ Running = 2
    /\ attempts[1] # attempts[2]

\* C4: when every call fails in every attempt the race raises after exactly
\* max_retries attempts, numbered 1 .. max_retries, with the total
\* max_retries * N, and nothing of the race runs after the raise.
ExhaustionIsTerminal ==
    /\ []((raised # << >>) <=> (spc = "raised"))
    /\ [](spc = "raised" =>
             /\ Len(attempts) = max_retries
             /\ raised[1].total = max_retries * N
             /\ result = << >>
             /\ \A i \in Idx : wpc[i] = "done" /\ ~outcome[i].success)
    /\ [](spc \in {"submit", "iter", "grace", "cooldown"} =>
             attempt = Running /\ attempt \in Attempts)
    /\ [][(spc = "iter" /\ AllFailed /\ Running = max_retries /\ spc' # "iter")
             => spc' = "for" /\ attempt' = max_retries + 1]_vars
    /\ [][(spc = "for" /\ attempt > max_retries) => spc' = "raised"]_vars
    /\ [][spc = "raised" => spc' = "input"]_vars

RaceExhausted == spc = "raised"

\* C5: every post of an attempt carries the session id the attempt started
\* with, different attempts have different session ids, and session_id stays
\* what it is while a worker of the attempt runs.
SessionPerAttempt ==
    /\ \A a \in Attempts : \A i \in Idx : \A k \in 1 .. Len(calls[a][i]) :
          a <= Len(attempts) /\ calls[a][i][k] = attempts[a]
    /\ DistinctSessions
    /\ (\E i \in Idx : wpc[i] \notin {"none", "done"}) =>
          /\ attempt = Running
          /\ attempt \in Attempts
          /\ session_id = attempts[attempt]
          /\ \A i \in Idx : wpc[i] # "none" => wsid[i] = session_id

\* two attempts have posted to the same flow
TwoAttemptsPosted ==
    /\ Len(calls[1][1]) = 1
    /\ Len(calls[2][1]) = 1

\* C6: winner_event is clear when an attempt starts, within an attempt it only
\* goes from clear to set, the scheduler sets it on being handed a
\* non-cancelled ok outcome, and no worker step changes it.
WinnerSignalDiscipline ==
    /\ [](spc = "submit" => ~winner_event)
    /\ [][(attempts' # attempts /\ attempts' # << >>) => ~winner_event']_vars
    /\ [][(winner_event /\ ~winner_event') => attempts' # attempts]_vars
    /\ [][(~winner_event /\ winner_event') =>
             /\ spc = "iter"
             /\ wpc' = wpc
             /\ outcome' = outcome
             /\ \E i \in Idx :
                   /\ observed' = Append(observed, i)
                   /\ outcome[i].success
                   /\ ~outcome[i].cancelled]_vars
    /\ [][(\E i \in Idx : /\ wpc[i] \in {"start", "sleep", "inflight"}
                          /\ wpc'[i] # wpc[i])
             => winner_event' = winner_event]_vars

\* the signal is set while a worker sleeps in its delay loop
SignalSetDuringDelay ==
    /\ winner_event
    /\ \E i \in Idx : wpc[i] = "sleep"

\* C7: each worker returns one outcome and posts at most once: once when it
\* was not cancelled, never when it returns cancelled.
OneOutcomeOneCall ==
    /\ \A a \in Attempts : \A i \in Idx : Len(calls[a][i]) <= 1
    /\ \A i \in Idx : Count(doneQ, i) = IF wpc[i] = "done" THEN 1 ELSE 0
    /\ \A i \in Idx :
          /\ wpc[i] = "done" =>
                Len(calls[Running][i]) = IF outcome[i].cancelled THEN 0 ELSE 1
          /\ wpc[i] = "inflight" => Len(calls[Running][i]) = 1
          /\ wpc[i] \in {"start", "sleep"} => calls[Running][i] = << >>

\* one worker returned cancelled and another returned after its post
CancelledAndInvoked ==
    \E i, j \in Idx :
        /\ wpc[i] = "done" /\ outcome[i].cancelled
        /\ wpc[j] = "done" /\ ~outcome[j].cancelled

\* C8 as stated: of two successes of an attempt the one that completed first
\* is returned and the later one is recorded in all_results (looked at for
\* the staggered schedules only, stagger_delay > 0).
LateSuccessCollected ==
    (spc = "returned" /\ stagger_delay > 0) =>
        \A i, j \in Idx :
            (/\ Succeeded(i) /\ Succeeded(j)
             /\ \E m, n \in 1 .. Len(doneQ) :
                   m < n /\ doneQ[m] = i /\ doneQ[n] = j)
            => /\ result[1].flow_id = Flow(i)
               /\ Recorded(j)

\* C8 as amended: of two successes of an attempt the one as_completed yields
\* first is returned; the other worker runs to its end, but its outcome is
\* never yielded, never recorded in all_results and never returned.
LateSuccessDropped ==
    spc = "returned" =>
        /\ winners # << >>
        /\ LET w == winners[1][2]
           IN  /\ w \in FirstOk(observed)
               /\ result =
                     << [message |-> outcome[w].message, flow_id |-> Flow(w)] >>
               /\ Recorded(w)
               /\ \A j \in Idx \ {w} :
                     /\ wpc[j] = "done"
                     /\ Succeeded(j) => j \notin Range(observed) /\ ~Recorded(j)
        /\ Cardinality({ k \in 1 .. Len(all_results) :
                            all_results[k].success }) = 1

\* the race has returned and two workers succeeded
TwoSuccesses ==
    /\ spc = "returned"
    /\ \E i, j \in Idx : i # j /\ Succeeded(i) /\ Succeeded(j)

\* C9: the delay of the flow at position i is i * stagger_delay, position 0
\* has delay 0, and the delays increase strictly with the position.
StaggerMonotonic ==
    \A i, j \in Idx :
        (wpc[i] # "none" /\ wpc[j] # "none") =>
            /\ wdelay[i] = i * stagger_delay
            /\ i = 0 => wdelay[i] = 0
            /\ i < j => wdelay[i] < wdelay[j]

\* C10: an outcome is ok exactly when the post came back with a JSON body
\* whose text is not blank, and then carries that text; a timeout, an error
\* and an empty, blank or missing text give ok = False with an empty message;
\* a returned result never has a blank message.
OkIffNonBlankText ==
    /\ last # << >> =>
          LET o == outcome[last[1]]
              r == last[2]
          IN  /\ o.success <=> (r.kind = "json" /\ NonBlank(r.text))
              /\ o.success => o.message = r.text
              /\ ~o.success => o.message = << >>
              /\ ~o.cancelled
              /\ o.flow_id = Flow(last[1])
    /\ result # << >> => NonBlank(result[1].message)

\* a body whose text is only whitespace was classified as a failure
BlankTextFails ==
    /\ last # << >>
    /\ last[2].kind = "json"
    /\ Len(last[2].text) > 0
    /\ ~NonBlank(last[2].text)
    /\ ~outcome[last[1]].success

Failed(i) == wpc[i] = "done" /\ ~outcome[i].success /\ ~outcome[i].cancelled

\* C11 as stated: no failure of a worker ends an attempt or leaves the race
\* as an error, and every failure is collected: when the race returns, each
\* worker that posted and failed has its entry in all_results.
FailuresAlwaysCollected ==
    spc = "returned" => \A i \in Idx : Failed(i) => Recorded(i)

\* C11 as amended: a failure of a worker is an outcome with success = False
\* that neither ends the attempt nor raises; it is appended to all_results
\* when as_completed yields it, which happens for every failure of an attempt
\* without a winner but not for one that completes after the winner; the only
\* error of the race is the exhaustion after max_retries failed attempts.
FailuresAreData ==
    /\ [](\A i \in Range(observed) :
             ~outcome[i].cancelled =>
                 \E k \in 1 .. Len(all_results) :
                     /\ all_results[k].flow_id = Flow(i)
                     /\ all_results[k].success = outcome[i].success)
    /\ [](spc \notin {"submit", "iter"} =>
             \A i \in Idx :
                 (Failed(i) /\ ~Recorded(i)) =>
                     winner_found /\ i \notin Range(observed))
    /\ [](spc \in {"cooldown", "raised"} =>
             /\ Len(all_results) = N
             /\ \A i \in Idx : Failed(i) /\ Recorded(i))
    /\ []((raised # << >>) =>
             /\ spc = "raised"
             /\ Len(attempts) = max_retries
             /\ winners = << >>)
    /\ [][\A i \in Idx :
             (wpc[i] = "inflight" /\ wpc'[i] = "done" /\ ~outcome'[i].success)
             => /\ spc' = spc
                /\ raised' = raised
                /\ result' = result
                /\ winner_event' = winner_event
                /\ all_results' = all_results]_vars
    /\ [][(/\ Len(observed') = Len(observed) + 1
           /\ ~outcome[observed'[Len(observed')]].success)
             => /\ spc = "iter" /\ spc' = "iter"
                /\ raised' = raised
                /\ result' = result
                /\ winner_found' = winner_found]_vars
    /\ [][(spc = "iter" /\ spc' # "iter") =>
             \/ spc' = "grace" /\ winners' # << >>
             \/ Range(observed) = Idx /\ AllFailed]_vars

\* the race has returned with one failure in all_results and another one,
\* which came after the winner, in no list
FailureDroppedAfterWinner ==
    /\ spc = "returned"
    /\ \E i, j \in Idx :
          /\ Failed(i) /\ Recorded(i)
          /\ Failed(j) /\ ~Recorded(j)

\* C12: flows [A, B, C] at positions 0, 1, 2 with an interval of 7 s, A
\* failing 2 s and B answering "hello" 9 s after the attempt started: the
\* race returns "hello" from B in the first attempt, not before 9 s have
\* passed, C is never posted to and its worker returns cancelled.
EndToEndScenario ==
    /\ Len(attempts) <= 1
    /\ spc \notin {"cooldown", "raised"}
    /\ calls[1][2] = << >>
    /\ wpc[2] # "inflight"
    /\ winner_found =>
          /\ winners = << << 1, 1 >> >>
          /\ clock >= BSucceedsAt
          /\ Failed(0)
    /\ spc = "returned" =>
          /\ result = << [message |-> Hello, flow_id |-> Flow(1)] >>
          /\ wpc[2] = "done"
          /\ outcome[2].cancelled
          /\ Len(calls[1][0]) = 1
          /\ Len(calls[1][1]) = 1

\* the scripted race has returned and the worker of C was cancelled
ScenarioReturned ==
    /\ spc = "returned"
    /\ stagger_delay = stagger_default
    /\ last = << 1, [kind |-> "json", text |-> Hello] >>
    /\ outcome[2].cancelled

DelayedWorkersExitOnSignal ==
    spc = "returned" =>
        /\ \A j \in Idx : wpc[j] = "done"
        /\ \A j \in pending : outcome[j].cancelled
        /\ LET w == winners[1][2]
           IN  /\ result = << [message |-> outcome[w].message,
                               flow_id |-> Flow(w)] >>
               /\ \A j \in Idx \ (pending \cup {w}) :
                     ~outcome[j].cancelled /\ Len(calls[Running][j]) = 1

\* C15: a worker returns cancelled only having seen winner_event set inside
\* its delay loop and without a post; that outcome has success = False and an
\* empty message, is not appended to all_results, is not the winner and is
\* not returned; every entry of all_results is of a worker that posted.
CancelledIsNeverCounted ==
    /\ [](\A i \in Idx :
             outcome[i].cancelled =>
                 /\ wpc[i] = "done"
                 /\ winner_event
                 /\ wdelay[i] > 0
                 /\ waited[i] < wdelay[i] * Sec
                 /\ calls[Running][i] = << >>
                 /\ ~outcome[i].success
                 /\ outcome[i].message = << >>
                 /\ i \notin Range(observed)
                 /\ ~Recorded(i)
                 /\ \A k \in 1 .. Len(winners) : winners[k][2] # i
                 /\ result # << >> => result[1].flow_id # Flow(i))
    /\ [](\A k \in 1 .. Len(all_results) :
             \E i \in Idx :
                 /\ all_results[k].flow_id = Flow(i)
                 /\ i \in Range(observed)
                 /\ ~outcome[i].cancelled
                 /\ Len(calls[Running][i]) = 1)
    /\ [](Len(all_results) <= N)
    /\ [](spc \in {"cooldown", "raised"} =>
             \A i \in Idx : ~outcome[i].cancelled)
    /\ [][\A i \in Idx :
             (~outcome[i].cancelled /\ outcome'[i].cancelled) =>
                 /\ wpc[i] \in {"start", "sleep"}
                 /\ winner_event
                 /\ calls' = calls]_vars

\* the race has returned a winner and joined a worker that returned cancelled
CancelledWorkerJoined ==
    /\ spc = "returned"
    /\ \E i \in Idx : outcome[i].cancelled /\ winners[1][2] # i

\* C16: the attempts of a race follow one another: workers are started only
\* by the submits of the running attempt, attempt k + 1 starts only with
\* every worker of the failed attempt k ended and the whole retry_delay slept
\* after that; there is no cooldown after an attempt with a winner nor after
\* the failed attempt number max_retries.
AttemptsAreSequential ==
    /\ [](spc = "cooldown" =>
             /\ AllFailed
             /\ ~winner_found
             /\ winners = << >>
             /\ attempt < max_retries
             /\ srem <= retry_delay * Sec)
    /\ [][(spc # "cooldown" /\ spc' = "cooldown") =>
             /\ spc = "iter"
             /\ Range(observed) = Idx
             /\ \A i \in Idx : wpc[i] = "done"
             /\ srem' = retry_delay * Sec]_vars
    /\ [][(spc = "cooldown" /\ spc' # "cooldown") =>
             /\ srem = 0
             /\ spc' = "for"
             /\ attempt' = attempt + 1]_vars
    /\ [][(spc # "for" /\ spc' = "for" /\ attempt' \in 2 .. max_retries) =>
             spc = "cooldown"]_vars
    /\ [][(Len(attempts') = Len(attempts) + 1 /\ attempts # << >>) =>
             /\ spc = "for"
             /\ srem = 0
             /\ AllFailed
             /\ \A i \in Idx : wpc'[i] = "none"]_vars
    /\ [][\A i \in Idx :
             (wpc[i] = "none" /\ wpc'[i] # "none") =>
                 /\ spc = "submit"
                 /\ wsid'[i] = attempts[Running]]_vars
    /\ [][(winner_found \/ spc \in {"grace", "returned"}) =>
             spc' \in {"grace", "returned", "input"}]_vars
    /\ [][(spc = "iter" /\ attempt = max_retries) =>
             spc' \in {"iter", "grace", "for"}]_vars
    /\ [][(spc = "for" /\ attempt > max_retries) => spc' = "raised"]_vars

\* the third attempt is submitting its workers
ThirdAttemptLaunched ==
    /\ spc = "submit"
    /\ Running = max_retries
    /\ \E i \in Idx : wpc[i] # "none"

\* the attempt that ran last has ended without a winner
AttemptHasFailed ==
    \/ spc \in {"cooldown", "raised"}
    \/ spc = "for" /\ Running >= 1 /\ attempt > Running

\* the posts made since the race began
CallsMade ==
    Cardinality({ t \in Attempts \X Idx \X (1 .. 2) :
                     t[3] <= Len(calls[t[1]][t[2]]) })

\* C17: in an attempt that ends in failure winner_event is never set and no
\* worker is cancelled: every flow is posted to exactly once, all_results
\* has N entries, one per flow and all with success = False; at the raise the
\* total max_retries * N is the number of posts the race made.
FailedAttemptInvokesAll ==
    /\ AttemptHasFailed =>
          /\ ~winner_event
          /\ ~winner_found
          /\ \A i \in Idx :
                /\ wpc[i] = "done"
                /\ ~outcome[i].cancelled
                /\ ~outcome[i].success
                /\ Len(calls[Running][i]) = 1
                /\ Cardinality({ k \in 1 .. Len(all_results) :
                                    all_results[k].flow_id = Flow(i) }) = 1
          /\ Len(all_results) = N
          /\ \A k \in 1 .. Len(all_results) : ~all_results[k].success
          /\ CallsMade = Running * N
    /\ spc = "raised" =>
          /\ raised[1].total = max_retries * N
          /\ raised[1].total = CallsMade

\* the race is exhausted and made nine posts, three of them after a start
\* delay
ExhaustedAfterAllCalls ==
    /\ spc = "raised"
    /\ stagger_delay > 0
    /\ CallsMade = max_retries * N

\* the worker at position i has been submitted and has not returned
Live(i) == wpc[i] \in {"start", "sleep", "inflight"}

\* C18: there are never more than N workers, one per flow, and a worker
\* that has not returned belongs to the running attempt; a flow has at most
\* one post under way; when the race returns or raises every worker it
\* started has returned.
WorkersBoundedAndJoined ==
    /\ [](/\ sub <= N
          /\ Cardinality({ i \in Idx : wpc[i] # "none" }) <= N
          /\ \A i \in Idx : wpc[i] # "none" => wsid[i] = attempts[Running])
    /\ [](\A i \in Idx :
             Live(i) =>
                 /\ spc \in {"submit", "iter", "grace"}
                 /\ attempt = Running
                 /\ wsid[i] = session_id)
    /\ [](\A i \in Idx :
             wpc[i] = "inflight" =>
                 /\ Len(calls[Running][i]) = 1
                 /\ \A a \in Attempts : Len(calls[a][i]) <= 1)
    /\ [](spc \in {"returned", "raised", "cooldown"} =>
             \A i \in Idx : wpc[i] = "done")
    /\ [][\A i \in Idx :
             (wpc[i] # "none" /\ wpc'[i] \in {"none", "start"}) =>
                 \/ wpc'[i] = wpc[i]
                 \/ wpc[i] = "done" /\ wpc'[i] = "none"]_vars
    /\ [][(spc = "grace" /\ spc' # "grace") =>
             /\ spc' = "returned"
             /\ \A i \in Idx : ~Live(i)]_vars

\* the race has returned having joined a worker whose post came back after
\* the winner was declared
UnobservedWorkerJoined ==
    /\ spc = "returned"
    /\ \E i \in Idx :
          /\ wpc[i] = "done"
          /\ ~outcome[i].cancelled
          /\ i \notin Range(observed)

RaceTerminates ==
    (spc \in {"for", "submit", "iter", "grace", "cooldown"})
        ~> (spc \in {"returned", "raised"} /\ \A i \in Idx : wpc[i] = "done")

\* the race raised after workers went through their delay loops
RaisedAfterDelays ==
    /\ spc = "raised"
    /\ \E i \in Idx : waited[i] > 0

====
